---- MODULE Spec2Model ----
(***************************************************************************)
(* ToneGrab: the download worker (src/src/ui/download_worker.py) driving   *)
(* the audio downloader (src/src/core/downloader.py).                      *)
(*                                                                         *)
(* Texts are sequences of tokens: a token stands for a piece of text that  *)
(* the code tests as a whole (a signature it searches for) or never looks  *)
(* into.  "x in s" is Contains(s, x); s.lower() is LowerMsg(s).            *)
(* None is the empty tuple <<>> and a present value v is <<v>>.            *)
(* Time is counted in ticks of 100 ms.                                     *)
(*                                                                         *)
(* The main window (src/src/ui/main_window.py) with its registry of live   *)
(* downloads is specified apart, over variables of its own: there a worker *)
(* is seen as the window sees it (running or not, its stop flag, the       *)
(* signals it queued), and the grace period of a cancel is counted in      *)
(* seconds.                                                                *)
(***************************************************************************)
EXTENDS Integers, Sequences, FiniteSets, TLC

VARIABLES
    stop_requested,      \* DownloadWorker._stop_requested
    last_progress,       \* DownloadWorker._last_progress
    last_progress_time,  \* DownloadWorker._last_progress_time
    last_status_time,    \* DownloadWorker._last_status_time
    now,                 \* time.time(), in ticks
    pc,                  \* where the worker thread stands
    audio_format,        \* DownloadWorker.audio_format
    total_items,         \* download_playlist: len(entries)
    idx,                 \* download_playlist: the loop index (1-based)
    results,             \* download_playlist: the accumulator
    returned,            \* download_playlist: <<>> or <<the returned list>>
    retry_count,         \* _download_single: retry_count
    result,              \* _download_single: <<>> or <<the last DownloadResult>>
    escaped,             \* <<>> or <<an exception that left download()>>
    attempts,            \* per execute attempt of the job: what the gateway met
    item_calls,          \* indices the item-start callback was invoked with
    download_calls,      \* indices the download strategy was invoked for
    progress_emitted,    \* values emitted on the progress signal since the item began
    status_times,        \* times of the 'downloading' status texts since the item began
    events_seen,         \* raw progress events processed since the item began
    percent_before_item, \* _last_progress as the last item-start callback found it
    terminal,            \* terminal signals (finished / error) emitted by the worker
    trace,               \* calls in order: metadata resolutions, item callbacks, dispatches
    download_id_counter, \* MainWindow.download_id_counter
    download_workers,    \* MainWindow.download_workers: the worker_data dicts, in order
    workers,             \* every DownloadWorker the window created; workers[id + 1]
    widget_status,       \* text of the status label of download id; widget_status[id + 1]
    gui,                 \* the window's thread: idle, or inside worker.wait of a cancel
    cancel_log,          \* the calls of _cancel_download so far, with what each found
    call                 \* <<>> or <<the last call of a function of the core, with its outcome>>

vars == <<stop_requested, last_progress, last_progress_time, last_status_time, now,
          pc, audio_format, total_items, idx, results, returned, retry_count, result,
          escaped, attempts, item_calls, download_calls, progress_emitted,
          status_times, events_seen, percent_before_item, terminal, trace,
          download_id_counter, download_workers, workers, widget_status, gui, cancel_log,
          call>>

progress_vars == <<last_progress, last_progress_time, last_status_time,
                   progress_emitted, status_times, events_seen, percent_before_item>>
playlist_vars == <<total_items, idx, results, returned, item_calls>>
single_vars == <<retry_count, result, escaped>>
job_vars == <<stop_requested, now, pc, audio_format, attempts, download_calls, terminal,
              trace, progress_vars, playlist_vars, single_vars>>
window_vars == <<download_id_counter, download_workers, workers, widget_status, gui,
                 cancel_log>>

(***************************************************************************)
(* Bounds                                                                  *)
(***************************************************************************)
MaxEntries == 3
MaxNameLen == 3
MaxEvents == 3
MaxJobEvents == 2
MaxTicks == 5
MaxItemStarts == 2
MaxJobs == 2
MaxCancels == 2
StartTime == 10

(***************************************************************************)
(* Text                                                                    *)
(***************************************************************************)
None == <<>>
Some(v) == <<v>>

Contains(msg, tok) == \E i \in 1..Len(msg) : msg[i] = tok

Lower(tok) ==
    CASE tok = "FFprobe" -> "ffprobe"
      [] tok = "Unable To Obtain File Audio Codec" -> "unable to obtain file audio codec"
      [] tok = "Cancelled" -> "cancelled"
      [] tok = "MP3" -> "mp3"
      [] tok = "Flac" -> "flac"
      [] tok = "WAV" -> "wav"
      [] tok = "M4A" -> "m4a"
      [] tok = "Opus" -> "opus"
      [] tok = "OGG" -> "ogg"
      [] tok = "Invalid data found" -> "invalid data found"
      [] tok = "Error opening input" -> "error opening input"
      [] tok = "HTTP Error 403" -> "http error 403"
      [] tok = "Download failed: " -> "download failed: "
      [] tok = "Unexpected error: " -> "unexpected error: "
      [] tok = "Playlist download failed: " -> "playlist download failed: "
      [] tok = "Download " -> "download "
      [] tok = "Playlist download " -> "playlist download "
      [] tok = "Download returned no file" -> "download returned no file"
      [] tok = "Audio conversion failed. The downloaded file may be corrupted or incomplete."
            -> "audio conversion failed. the downloaded file may be corrupted or incomplete."
      [] tok = "Failed to analyze audio file. This might be a temporary issue with the source."
            -> "failed to analyze audio file. this might be a temporary issue with the source."
      [] OTHER -> tok

LowerMsg(msg) == [i \in 1..Len(msg) |-> Lower(msg[i])]

\* The string a sequence of tokens stands for.
RECURSIVE Text(_)
Text(msg) == IF msg = <<>> THEN "" ELSE Head(msg) \o Text(Tail(msg))

\* Error texts of the extraction service the gateway may meet.
RawErrors ==
    { <<"HTTP Error 403">>,
      <<"Invalid data found">>,
      <<"Error opening input">>,
      <<"ffprobe">>,
      <<"FFprobe">>,
      <<"unable to obtain file audio codec", "ffprobe">>,
      <<"Invalid data found", "ffprobe">>,
      <<"Unable To Obtain File Audio Codec">>,
      <<"cancelled">>,
      <<>> }

\* Texts of exceptions that are neither the gateway's DownloadError nor a
\* cancellation.
UnexpectedErrors == { <<"HTTP Error 403">>, <<"ffprobe">>, <<"Cancelled">>, <<>> }

CorruptMsg == <<"Audio conversion failed. The downloaded file may be corrupted or incomplete.">>
ProbeMsg == <<"Failed to analyze audio file. This might be a temporary issue with the source.">>
NoFileMsg == <<"Download returned no file">>
CancelledMsg == <<"Download ", "cancelled", " by user">>
PlaylistCancelledMsg == <<"Playlist download ", "cancelled", " by user">>

(***************************************************************************)
(* Value objects                                                           *)
(***************************************************************************)
FormatNames == {"mp3", "flac", "wav", "m4a", "opus", "ogg"}

\* The formats of the jobs the specification of whole jobs runs.
JobFormats == {"mp3", "m4a"}

\* Format names as a caller may spell them, and the bitrates of the window.
FormatSpellings == FormatNames \cup {"MP3", "Flac", "WAV", "M4A", "Opus", "OGG", ""}
Qualities == {"128", "192", "256", "320"}

AudioFormat(codec, quality, extension) ==
    [codec |-> codec, quality |-> quality, extension |-> extension]

\* format_map.get(name, default)(): the AudioFormat factories by name.
format_map(name, quality) ==
    CASE name = "mp3" -> AudioFormat("mp3", quality, "mp3")
      [] name = "flac" -> AudioFormat("flac", "best", "flac")
      [] name = "wav" -> AudioFormat("wav", "best", "wav")
      [] name = "m4a" -> AudioFormat("aac", quality, "m4a")
      [] name = "opus" -> AudioFormat("opus", quality, "opus")
      [] OTHER -> AudioFormat("mp3", quality, "mp3")

\* with_audio_format looking the name up as it was given.
with_audio_format_case_sensitive(format_name, quality) == format_map(format_name, quality)

\* DownloadOptionsBuilder.with_audio_format: the AudioFormat it stores.
with_audio_format(format_name, quality) == format_map(Lower(format_name), quality)

\* The codec handed to the postprocessor.
FormatCodec(format_name) == with_audio_format(format_name, "192").codec

success_result_swapped(file_path) ==
    [success |-> TRUE, file_path |-> None, error_message |-> Some(file_path)]

success_result(file_path) ==
    [success |-> TRUE, file_path |-> Some(file_path), error_message |-> None]

failure_result(error) ==
    [success |-> FALSE, file_path |-> None, error_message |-> Some(error)]

\* Python truthiness of a str | None.
Truthy(opt) == opt # None /\ opt[1] # <<>>

(***************************************************************************)
(* Exceptions and call outcomes                                            *)
(***************************************************************************)
Exc(type, msg) == [type |-> type, msg |-> msg]
Return(v) == [kind |-> "return", value |-> v, exc |-> Exc("", <<>>)]
Raise(e) == [kind |-> "raise", value |-> None, exc |-> e]

\* "DownloadCancelled" in str(type(e).__name__) or "cancelled" in str(e).lower()
IsCancellation(e) ==
    e.type = "DownloadCancelled" \/ Contains(LowerMsg(e.msg), "cancelled")

(***************************************************************************)
(* The gateway: YtDlpDownloadStrategy.download                             *)
(***************************************************************************)
\* What happens inside the extraction service during one execute call.
\*   info       : extract_info returned metadata; the file is at `filename`
\*   noinfo     : extract_info returned nothing
\*   cancelled  : the progress hook raised DownloadCancelled
\*   error      : the service raised an error with text `msg`
\*   unexpected : an exception that is not classified by the gateway
\*                reaches the caller of the strategy
ServiceBehaviours ==
    { [kind |-> "info", msg |-> <<"Song", ".", "webm">>], [kind |-> "noinfo", msg |-> <<>>] }
    \cup { [kind |-> "error", msg |-> m] : m \in RawErrors }
    \cup { [kind |-> "unexpected", msg |-> m] : m \in UnexpectedErrors }

HookCancelled == [kind |-> "cancelled", msg |-> CancelledMsg]

\* One behaviour of each kind the loop of download_playlist tells apart.
PlaylistBehaviours ==
    { [kind |-> "info", msg |-> <<"Song", ".", "webm">>],
      [kind |-> "noinfo", msg |-> <<>>],
      [kind |-> "error", msg |-> <<"HTTP Error 403">>],
      [kind |-> "error", msg |-> <<"unable to obtain file audio codec", "ffprobe">>],
      [kind |-> "error", msg |-> <<"cancelled">>],
      [kind |-> "unexpected", msg |-> <<"HTTP Error 403">>],
      [kind |-> "unexpected", msg |-> <<"Cancelled">>] }

\* filename.rsplit(".", 1)[0]
RSplitDot(filename) ==
    IF \E i \in 1..Len(filename) : filename[i] = "."
    THEN LET last == CHOOSE i \in 1..Len(filename) :
                        /\ filename[i] = "."
                        /\ \A j \in (i+1)..Len(filename) : filename[j] # "."
         IN SubSeq(filename, 1, last - 1)
    ELSE filename

\* The gateway's classification of a raw error text.
ClassifyKind(error_msg) ==
    IF Contains(error_msg, "Invalid data found") \/ Contains(error_msg, "Error opening input")
    THEN "CorruptSource"
    ELSE IF Contains(error_msg, "unable to obtain file audio codec")
            \/ Contains(LowerMsg(error_msg), "ffprobe")
    THEN "ProbeFailure"
    ELSE "Unknown"

ClassifiedMsg(error_msg) ==
    CASE ClassifyKind(error_msg) = "CorruptSource" -> CorruptMsg
      [] ClassifyKind(error_msg) = "ProbeFailure" -> ProbeMsg
      [] OTHER -> <<"Download failed: ">> \o error_msg

\* The gateway with DownloadCancelled classified like any other error.
YtDlpDownloadStrategy_download_reclassifying(b, codec) ==
    CASE b.kind = "info" -> Return(Some(RSplitDot(b.msg) \o <<".", codec>>))
      [] b.kind = "noinfo" -> Return(None)
      [] b.kind = "cancelled" -> Raise(Exc("DownloadError", ClassifiedMsg(b.msg)))
      [] b.kind = "error" -> Raise(Exc("DownloadError", ClassifiedMsg(b.msg)))
      [] OTHER -> Raise(Exc("Exception", b.msg))

YtDlpDownloadStrategy_download(b, codec) ==
    CASE b.kind = "info" -> Return(Some(RSplitDot(b.msg) \o <<".", codec>>))
      [] b.kind = "noinfo" -> Return(None)
      [] b.kind = "cancelled" -> Raise(Exc("DownloadCancelled", b.msg))
      [] b.kind = "error" -> Raise(Exc("DownloadError", ClassifiedMsg(b.msg)))
      [] OTHER -> Raise(Exc("Exception", b.msg))

\* What the gateway met in one attempt, as the specification names it.
AttemptKind(b) ==
    CASE b.kind = "info" -> "Success"
      [] b.kind = "noinfo" -> "NoFile"
      [] b.kind = "cancelled" -> "Cancelled"
      [] b.kind = "error" -> ClassifyKind(b.msg)
      [] OTHER -> "Unexpected"

(***************************************************************************)
(* AudioDownloader.download                                                *)
(***************************************************************************)
\* The except clauses of download with the general handler missing.
download_handlers_only_DownloadError(r) ==
    IF r.kind = "return" THEN r
    ELSE IF r.exc.type = "DownloadError" THEN Return(failure_result(r.exc.msg))
    ELSE r

\* The except clauses of download, applied to the outcome of its try block.
download_handlers(r) ==
    IF r.kind = "return" THEN r
    ELSE IF r.exc.type = "DownloadError" THEN Return(failure_result(r.exc.msg))
    ELSE IF IsCancellation(r.exc) THEN Return(failure_result(CancelledMsg))
    ELSE Return(failure_result(<<"Unexpected error: ">> \o r.exc.msg))

\* The try block of download: the strategy's outcome folded into a result.
download_try(b, codec) ==
    LET r == YtDlpDownloadStrategy_download(b, codec)
    IN IF r.kind = "raise" THEN r
       ELSE IF Truthy(r.value) THEN Return(success_result(r.value[1]))
       ELSE Return(failure_result(NoFileMsg))

AudioDownloader_download(b, format_name) ==
    download_handlers(download_try(b, FormatCodec(format_name)))

(***************************************************************************)
(* DownloadWorker: progress                                                *)
(***************************************************************************)
ProgressUpdateInterval == 1
StatusUpdateInterval == 5

\* A percent as the float the hook computes: num / den, den > 0.
Pct(num, den) == [num |-> num, den |-> den]

\* d.get("_percent_str", ""): absent, unparseable, or a number of tenths of a percent.
NoPercentStr == [present |-> FALSE, parseable |-> FALSE, tenths |-> 0]
BadPercentStr == [present |-> TRUE, parseable |-> FALSE, tenths |-> 0]
PercentStr(tenths) == [present |-> TRUE, parseable |-> TRUE, tenths |-> tenths]

Downloading(percent_str, downloaded, total, estimate, fragment_index, fragment_count) ==
    [status |-> "downloading", percent_str |-> percent_str,
     downloaded_bytes |-> downloaded, total_bytes |-> total,
     total_bytes_estimate |-> estimate,
     fragment_index |-> fragment_index, fragment_count |-> fragment_count]

Finished == [status |-> "finished", percent_str |-> NoPercentStr,
             downloaded_bytes |-> 0, total_bytes |-> 0, total_bytes_estimate |-> 0,
             fragment_index |-> 0, fragment_count |-> 0]

\* Method 1: float(percent_str); a ValueError leaves 0.
PercentFromStr(d) ==
    IF d.percent_str.present /\ d.percent_str.parseable
    THEN Pct(d.percent_str.tenths, 10)
    ELSE Pct(0, 1)

\* d.get("total_bytes") or d.get("total_bytes_estimate", 0)
TotalBytes(d) == IF d.total_bytes # 0 THEN d.total_bytes ELSE d.total_bytes_estimate

\* Method 2: (downloaded / total) * 100 when percent is still 0.
PercentFromBytes(percent, d) ==
    IF percent.num = 0 /\ TotalBytes(d) > 0
    THEN Pct(d.downloaded_bytes * 100, TotalBytes(d))
    ELSE percent

\* Method 3: (fragment_index / fragment_count) * 100 when percent is still 0.
PercentFromFragments(percent, d) ==
    IF percent.num = 0 /\ d.fragment_count > 0
    THEN Pct(d.fragment_index * 100, d.fragment_count)
    ELSE percent

DerivePercent(d) == PercentFromFragments(PercentFromBytes(PercentFromStr(d), d), d)

\* int(percent) of a positive percent.
IntOf(percent) == percent.num \div percent.den

Abs(x) == IF x < 0 THEN -x ELSE x

\* _smooth_progress_update: the value emitted (if any) and the fields it leaves.
smooth_progress_update(new_progress, last, last_time, current_time) ==
    LET time_diff == current_time - last_time
        skipped == time_diff < ProgressUpdateInterval /\ Abs(new_progress - last) < 5
        smoothed == IF last > 0 /\ Abs(new_progress - last) > 20
                    THEN (last + new_progress) \div 2
                    ELSE new_progress
    IN IF ~skipped /\ smoothed >= last
       THEN [emit |-> Some(smoothed), last |-> smoothed, last_time |-> current_time]
       ELSE [emit |-> None, last |-> last, last_time |-> last_time]

\* The hook with no throttle on its status texts.
status_throttled_never(current_time, last_time) == FALSE

\* current_time - self._last_status_time < self._status_update_interval
status_throttled(current_time, last_time) == current_time - last_time < StatusUpdateInterval

\* _progress_hook past its cancellation check: the event's effect on the
\* worker's progress fields and on its progress and status signals.
progress_hook_effect(d) ==
    IF d.status = "downloading"
    THEN LET percent == DerivePercent(d)
             upd == IF percent.num > 0
                    THEN smooth_progress_update(IntOf(percent), last_progress,
                                                last_progress_time, now)
                    ELSE [emit |-> None, last |-> last_progress,
                          last_time |-> last_progress_time]
             throttled == status_throttled(now, last_status_time)
         IN /\ last_progress' = upd.last
            /\ last_progress_time' = upd.last_time
            /\ progress_emitted' = progress_emitted \o upd.emit
            /\ last_status_time' = IF throttled THEN last_status_time ELSE now
            /\ status_times' = IF throttled THEN status_times ELSE Append(status_times, now)
    ELSE /\ progress_emitted' = Append(progress_emitted, 100)
         /\ UNCHANGED <<last_progress, last_progress_time, last_status_time, status_times>>

\* _playlist_item_callback past its cancellation check.
playlist_item_callback_no_reset ==
    /\ last_progress' = last_progress
    /\ last_progress_time' = 0
    /\ last_status_time' = 0
    /\ progress_emitted' = <<0>>
    /\ status_times' = <<>>
    /\ events_seen' = 0
    /\ percent_before_item' = last_progress

playlist_item_callback_effect ==
    /\ last_progress' = 0
    /\ last_progress_time' = 0
    /\ last_status_time' = 0
    /\ progress_emitted' = <<0>>
    /\ status_times' = <<>>
    /\ events_seen' = 0
    /\ percent_before_item' = last_progress

\* Raw progress events of the extraction service.
PercentTenths == {0, 4, 400, 555, 1000, 1500}
ByteCounters == { <<0, 0, 0>>, <<50, 100, 0>>, <<150, 0, 100>>, <<10, 0, 0>> }
FragmentCounters == { <<0, 0>>, <<1, 4>> }

\* The events of the specification of the progress signal: the counters
\* vary only in the events whose string is absent or unparsable.
RawEvents ==
    { Downloading(PercentStr(t), 0, 0, 0, 0, 0) : t \in PercentTenths }
    \cup { Downloading(ps, bc[1], bc[2], bc[3], fc[1], fc[2]) :
             ps \in {NoPercentStr, BadPercentStr},
             bc \in ByteCounters, fc \in FragmentCounters }
    \cup {Finished}

\* The events a job's transfer delivers in the specification of whole jobs.
JobEvents ==
    { Downloading(PercentStr(400), 0, 0, 0, 0, 0), Finished }

\* The window's thread is in its event loop, free to run a handler.
GuiIdle == [state |-> "idle", id |-> 0, waited |-> 0]

(***************************************************************************)
(* The worker thread: DownloadWorker.run                                   *)
(***************************************************************************)
max_retries == 2

Signal(sig, text) == [sig |-> sig, text |-> text]

\* An entry of the trace of calls.
\*   get_video_info : a metadata resolution made at step `what`, i = 1 when it
\*                    yielded metadata of a collection, 0 otherwise; title is
\*                    <<>> exactly when it yielded nothing
\*   item_callback  : item_callback(i, total, title) was invoked; what is
\*                    "raised" when it raised DownloadCancelled
\*   dispatch       : the download of entry i was handed to the strategy
\*   returned       : the download of entry i has returned (or raised)
Ev(ev, what, i, total, title) ==
    [ev |-> ev, what |-> what, i |-> i, total |-> total, title |-> title]

InfoEv(step, info) ==
    Ev("get_video_info", step, IF info = "playlist" THEN 1 ELSE 0, 0,
       IF info = "none" THEN <<>> ELSE <<"metadata">>)

\* The check at the top of _progress_hook: if self._stop_requested.
hook_cancel_check_missing == FALSE

hook_cancel_check == stop_requested

ContainsSeq(msg, sub) ==
    \E i \in 0..(Len(msg) - Len(sub)) : SubSeq(msg, i + 1, i + Len(sub)) = sub

\* DownloadWorker.stop, called from the window's thread.
Stop ==
    /\ pc # "done"
    /\ ~stop_requested
    /\ stop_requested' = TRUE
    /\ UNCHANGED <<pc, now, audio_format, attempts, download_calls, terminal,
                   progress_vars, playlist_vars, single_vars>>
    /\ UNCHANGED <<trace, window_vars, call>>

\* time.time() advances.
Tick ==
    /\ now < StartTime + MaxTicks
    /\ now' = now + 1
    /\ UNCHANGED <<stop_requested, pc, audio_format, attempts, download_calls, terminal,
                   progress_vars, playlist_vars, single_vars>>
    /\ UNCHANGED <<trace, window_vars, call>>

\* run: the URL type check decides the path.
Run ==
    /\ pc = "run"
    /\ \E is_playlist \in BOOLEAN :
          pc' = IF is_playlist THEN "playlist_begin" ELSE "single_begin"
    /\ UNCHANGED <<stop_requested, now, audio_format, attempts, download_calls, terminal,
                   progress_vars, playlist_vars, single_vars>>
    /\ UNCHANGED <<trace, window_vars, call>>

\* The except clause of run, for an exception e that reached it: the
\* terminal signals it emits.
run_except(e) ==
    IF ContainsSeq(LowerMsg(e.msg), <<"cancelled", " by user">>) \/ stop_requested
    THEN <<>>
    ELSE IF Contains(LowerMsg(e.msg), "ffmpeg") \/ Contains(LowerMsg(e.msg), "ffprobe")
    THEN <<Signal("error", <<"FFmpeg is not installed or not found in PATH.">> \o e.msg)>>
    ELSE <<Signal("error", e.msg \o <<"Details:">>)>>

(***************************************************************************)
(* DownloadWorker._download_single                                         *)
(***************************************************************************)
\* _download_single going on without metadata.
SingleBegin_without_info_check ==
    /\ pc = "single_begin"
    /\ \E info \in {"none", "video"} :
          IF stop_requested
          THEN /\ terminal' = Append(terminal, Signal("error", CancelledMsg))
               /\ pc' = "done"
               /\ trace' = trace
          ELSE /\ terminal' = terminal
               /\ pc' = "single_checkpoint"
               /\ trace' = Append(trace, InfoEv("fetch_info", info))
    /\ UNCHANGED <<stop_requested, now, audio_format, attempts, download_calls,
                   progress_vars, playlist_vars, single_vars>>
    /\ UNCHANGED <<window_vars, call>>

\* _download_single up to the metadata: the first checkpoint and get_video_info.
SingleBegin ==
    /\ pc = "single_begin"
    /\ \E info \in {"none", "video", "playlist"} :
          IF stop_requested
          THEN /\ terminal' = Append(terminal, Signal("error", CancelledMsg))
               /\ pc' = "done"
               /\ trace' = trace
          ELSE IF info = "none"
          THEN /\ terminal' = Append(terminal,
                                     Signal("error", <<"Failed to fetch video information">>))
               /\ pc' = "done"
               /\ trace' = Append(trace, InfoEv("fetch_info", info))
          ELSE /\ terminal' = terminal
               /\ pc' = "single_checkpoint"
               /\ trace' = Append(trace, InfoEv("fetch_info", info))
    /\ UNCHANGED <<stop_requested, now, audio_format, attempts, download_calls,
                   progress_vars, playlist_vars, single_vars>>
    /\ UNCHANGED <<window_vars, call>>

\* self.downloader.download(...) of the loop of _download_single, for the
\* attempt-th time: its call ("begin") and its return ("end").
execute_call(what, attempt) == Ev("execute", what, attempt, max_retries + 1, <<>>)

\* The status text of a retry naming the attempt that just failed.
retry_status_failed_attempt(retries) ==
    Ev("status", "retrying", retries, max_retries + 1, <<>>)

\* self.status.emit(f"... Retrying... (attempt {retry_count + 1}/{max_retries + 1})"),
\* retries being retry_count after its increment.
retry_status(retries) == Ev("status", "retrying", retries + 1, max_retries + 1, <<>>)

\* The second checkpoint emitting its error without returning.
SingleCheckpoint_without_return ==
    /\ pc = "single_checkpoint"
    /\ terminal' = IF stop_requested
                   THEN Append(terminal, Signal("error", CancelledMsg))
                   ELSE terminal
    /\ pc' = "single_transfer"
    /\ trace' = Append(trace, execute_call("begin", 1))
    /\ retry_count' = 0
    /\ result' = None
    /\ UNCHANGED <<stop_requested, now, audio_format, attempts, download_calls, escaped,
                   progress_vars, playlist_vars>>
    /\ UNCHANGED <<window_vars, call>>

\* The second checkpoint, then the first execute attempt starts.
SingleCheckpoint ==
    /\ pc = "single_checkpoint"
    /\ IF stop_requested
       THEN /\ terminal' = Append(terminal, Signal("error", CancelledMsg))
            /\ pc' = "done"
            /\ trace' = trace
       ELSE /\ terminal' = terminal
            /\ pc' = "single_transfer"
            /\ trace' = Append(trace, execute_call("begin", 1))
    /\ retry_count' = 0
    /\ result' = None
    /\ UNCHANGED <<stop_requested, now, audio_format, attempts, download_calls, escaped,
                   progress_vars, playlist_vars>>
    /\ UNCHANGED <<window_vars, call>>

\* The retry test without its bound on retry_count.
should_retry_unbounded(res, retries) ==
    /\ ~res.success
    /\ Truthy(res.error_message)
    /\ LET error_lower == LowerMsg(res.error_message[1])
       IN \/ Contains(error_lower, "unable to obtain file audio codec")
          \/ Contains(error_lower, "ffprobe")

\* The retry test of the loop of _download_single.
should_retry(res, retries) ==
    /\ ~res.success
    /\ Truthy(res.error_message)
    /\ LET error_lower == LowerMsg(res.error_message[1])
       IN \/ Contains(error_lower, "unable to obtain file audio codec")
          \/ Contains(error_lower, "ffprobe")
    /\ retries < max_retries

\* The terminal signal after the loop.
single_final_signal(res) ==
    IF res.success /\ Truthy(res.file_path)
    THEN Signal("finished", res.file_path[1])
    ELSE Signal("error", IF res.error_message = None THEN <<"None">> ELSE res.error_message[1])

\* One execute attempt of _download_single ends, the service having behaved
\* as b: download returns (or raises), then the loop retries or ends.
single_attempt_done(b) ==
    LET r == AudioDownloader_download(b, audio_format)
    IN /\ attempts' = Append(attempts, b)
       /\ IF r.kind = "raise"
          THEN /\ escaped' = Some(r.exc)
               /\ terminal' = terminal \o run_except(r.exc)
               /\ pc' = "done"
               /\ trace' = Append(trace, execute_call("end", retry_count + 1))
               /\ UNCHANGED <<retry_count, result>>
          ELSE /\ escaped' = escaped
               /\ result' = Some(r.value)
               /\ IF should_retry(r.value, retry_count)
                  THEN /\ retry_count' = retry_count + 1
                       /\ pc' = "single_transfer"
                       /\ terminal' = terminal
                       /\ trace' = trace \o << execute_call("end", retry_count + 1),
                                                retry_status(retry_count'),
                                                execute_call("begin", retry_count' + 1) >>
                  ELSE /\ retry_count' = retry_count
                       /\ pc' = "done"
                       /\ terminal' = Append(terminal, single_final_signal(r.value))
                       /\ trace' = Append(trace, execute_call("end", retry_count + 1))
       /\ UNCHANGED <<stop_requested, now, audio_format, download_calls, playlist_vars>>

\* The service delivers a raw progress event to _progress_hook during an
\* attempt: the hook aborts the attempt if stop was requested.
SingleProgress ==
    /\ pc = "single_transfer"
    /\ events_seen < MaxJobEvents
    /\ \E d \in JobEvents :
          IF hook_cancel_check
          THEN /\ single_attempt_done(HookCancelled)
               /\ UNCHANGED progress_vars
          ELSE /\ progress_hook_effect(d)
               /\ events_seen' = events_seen + 1
               /\ UNCHANGED <<stop_requested, now, pc, audio_format, attempts, download_calls,
                              terminal, percent_before_item, playlist_vars, single_vars,
                              trace>>
    /\ UNCHANGED <<window_vars, call>>

\* The service ends the attempt by itself.
SingleTransferEnd ==
    /\ pc = "single_transfer"
    /\ \E b \in ServiceBehaviours : single_attempt_done(b)
    /\ UNCHANGED progress_vars
    /\ UNCHANGED <<window_vars, call>>

(***************************************************************************)
(* DownloadWorker._download_playlist and AudioDownloader.download_playlist *)
(***************************************************************************)
\* What the loop finds at an entry: None, an entry without URL and id, or
\* an entry it can dispatch.
EntryKinds == {"none", "nourl", "ok"}

\* entry.get('title', f'Track {idx}') over the playlist the jobs download,
\* whose second entry carries no title.
EntryTitle(i) == IF i = 2 THEN <<"Track ", ToString(i)>> ELSE <<"Title of entry ", ToString(i)>>

Undispatched(kind) == [kind |-> kind, msg |-> <<>>]

\* _download_playlist up to its call of download_playlist.
PlaylistBegin ==
    /\ pc = "playlist_begin"
    /\ \E info \in {"none", "some"} :
          IF stop_requested
          THEN /\ terminal' = Append(terminal, Signal("error", CancelledMsg))
               /\ pc' = "done"
               /\ trace' = trace
          ELSE IF info = "none"
          THEN /\ terminal' = Append(terminal,
                                     Signal("error", <<"Failed to fetch playlist information">>))
               /\ pc' = "done"
               /\ trace' = Append(trace, InfoEv("playlist_begin", info))
          ELSE /\ terminal' = terminal
               /\ pc' = "pl_info"
               /\ trace' = Append(trace, InfoEv("playlist_begin", info))
    /\ UNCHANGED <<stop_requested, now, audio_format, attempts, download_calls,
                   progress_vars, playlist_vars, single_vars>>
    /\ UNCHANGED <<window_vars, call>>

\* download_playlist entering its loop whatever the metadata says.
PlaylistInfo_without_checks ==
    /\ pc = "pl_info"
    /\ \E info \in {"none", "video", "playlist"}, n \in 0..MaxEntries :
          /\ info # "playlist" => n = 0
          /\ results' = <<>>
          /\ trace' = Append(trace, InfoEv("download_playlist", info))
          /\ returned' = returned
          /\ pc' = "pl_item"
          /\ total_items' = n
          /\ idx' = 1
    /\ UNCHANGED <<stop_requested, now, audio_format, attempts, download_calls, terminal,
                   item_calls, progress_vars, single_vars>>
    /\ UNCHANGED <<window_vars, call>>

\* download_playlist up to its loop: the metadata decides.
PlaylistInfo ==
    /\ pc = "pl_info"
    /\ \E info \in {"none", "video", "playlist"}, n \in 0..MaxEntries :
          /\ info # "playlist" => n = 0
          /\ results' = <<>>
          /\ trace' = Append(trace, InfoEv("download_playlist", info))
          /\ IF info # "playlist"
             THEN /\ returned' = Some(<<failure_result(<<"URL is not a playlist">>)>>)
                  /\ pc' = "pl_returned"
                  /\ UNCHANGED <<total_items, idx>>
             ELSE IF n = 0
             THEN /\ returned' = Some(<<failure_result(<<"Playlist is ", "empty">>)>>)
                  /\ pc' = "pl_returned"
                  /\ total_items' = 0
                  /\ idx' = idx
             ELSE /\ returned' = returned
                  /\ pc' = "pl_item"
                  /\ total_items' = n
                  /\ idx' = 1
    /\ UNCHANGED <<stop_requested, now, audio_format, attempts, download_calls, terminal,
                   item_calls, progress_vars, single_vars>>
    /\ UNCHANGED <<window_vars, call>>

\* The calls the loop body makes for an entry it can dispatch, in order:
\* item_callback(idx, total_items, entry_title), then the strategy.
item_start_calls_dispatch_first(i, total) ==
    << Ev("dispatch", "strategy", i, total, EntryTitle(i)),
       Ev("item_callback", "emitted", i, total, EntryTitle(i)) >>

item_start_calls(i, total) ==
    << Ev("item_callback", "emitted", i, total, EntryTitle(i)),
       Ev("dispatch", "strategy", i, total, EntryTitle(i)) >>

\* The loop goes on after the result of entry idx has been appended: to the
\* next entry, or out of the loop to "return results".
loop_continues(rs) ==
    IF idx = total_items
    THEN /\ returned' = Some(rs)
         /\ pc' = "pl_returned"
         /\ idx' = idx
    ELSE /\ returned' = returned
         /\ pc' = "pl_item"
         /\ idx' = idx + 1

\* The loop body for entry idx up to the dispatch of its download: the
\* entry checks, the item-start callback, the options.
PlaylistItem ==
    /\ pc = "pl_item"
    /\ \E entry \in EntryKinds :
          IF entry = "none"
          THEN /\ results' = Append(results, failure_result(
                                <<"Item ", ToString(idx), ": Invalid entry">>))
               /\ attempts' = Append(attempts, Undispatched("none"))
               /\ loop_continues(results')
               /\ UNCHANGED <<item_calls, download_calls, progress_vars, trace>>
          ELSE IF entry = "nourl"
          THEN /\ results' = Append(results, failure_result(
                                <<"Item ", ToString(idx), ": No URL found">>))
               /\ attempts' = Append(attempts, Undispatched("nourl"))
               /\ loop_continues(results')
               /\ UNCHANGED <<item_calls, download_calls, progress_vars, trace>>
          ELSE IF stop_requested
          THEN \* _playlist_item_callback raises DownloadCancelled: the handler
               \* of the whole function returns
               /\ attempts' = Append(attempts, Undispatched("item_cancelled"))
               /\ returned' = Some(<<failure_result(
                                <<"Playlist download failed: ">> \o PlaylistCancelledMsg)>>)
               /\ pc' = "pl_returned"
               /\ trace' = Append(trace, Ev("item_callback", "raised", idx, total_items,
                                            EntryTitle(idx)))
               /\ UNCHANGED <<results, idx, item_calls, download_calls, progress_vars>>
          ELSE /\ playlist_item_callback_effect
               /\ item_calls' = Append(item_calls, idx)
               /\ download_calls' = Append(download_calls, idx)
               /\ trace' = trace \o item_start_calls(idx, total_items)
               /\ pc' = "pl_transfer"
               /\ UNCHANGED <<attempts, results, returned, idx>>
    /\ UNCHANGED <<stop_requested, now, audio_format, terminal, total_items, single_vars>>
    /\ UNCHANGED <<window_vars, call>>

\* The try/except around the download of one entry: the entry's result and
\* whether the loop is left.
playlist_item_outcome_break_on_error(b, codec) ==
    LET r == YtDlpDownloadStrategy_download(b, codec)
    IN IF r.kind = "return"
       THEN [result |-> IF Truthy(r.value) THEN success_result(r.value[1])
                        ELSE failure_result(NoFileMsg),
             stop |-> FALSE]
       ELSE IF r.exc.type = "DownloadError"
       THEN [result |-> failure_result(r.exc.msg), stop |-> TRUE]
       ELSE IF IsCancellation(r.exc)
       THEN [result |-> failure_result(CancelledMsg), stop |-> TRUE]
       ELSE [result |-> failure_result(<<"Unexpected error: ">> \o r.exc.msg), stop |-> FALSE]

playlist_item_outcome_no_break(b, codec) ==
    LET r == YtDlpDownloadStrategy_download(b, codec)
    IN IF r.kind = "return"
       THEN [result |-> IF Truthy(r.value) THEN success_result(r.value[1])
                        ELSE failure_result(NoFileMsg),
             stop |-> FALSE]
       ELSE IF r.exc.type = "DownloadError"
       THEN [result |-> failure_result(r.exc.msg), stop |-> FALSE]
       ELSE IF IsCancellation(r.exc)
       THEN [result |-> failure_result(CancelledMsg), stop |-> FALSE]
       ELSE [result |-> failure_result(<<"Unexpected error: ">> \o r.exc.msg), stop |-> FALSE]

playlist_item_outcome(b, codec) ==
    LET r == YtDlpDownloadStrategy_download(b, codec)
    IN IF r.kind = "return"
       THEN [result |-> IF Truthy(r.value) THEN success_result(r.value[1])
                        ELSE failure_result(NoFileMsg),
             stop |-> FALSE]
       ELSE IF r.exc.type = "DownloadError"
       THEN [result |-> failure_result(r.exc.msg), stop |-> FALSE]
       ELSE IF IsCancellation(r.exc)
       THEN [result |-> failure_result(CancelledMsg), stop |-> TRUE]
       ELSE [result |-> failure_result(<<"Unexpected error: ">> \o r.exc.msg), stop |-> FALSE]

\* The download of entry idx ends, the service having behaved as b.
playlist_transfer_done(b) ==
    LET o == playlist_item_outcome(b, FormatCodec(audio_format))
        rs == Append(results, o.result)
    IN /\ attempts' = Append(attempts, b)
       /\ results' = rs
       /\ trace' = Append(trace, Ev("returned", b.kind, idx, total_items, EntryTitle(idx)))
       /\ IF o.stop
          THEN /\ returned' = Some(rs)
               /\ pc' = "pl_returned"
               /\ idx' = idx
          ELSE loop_continues(rs)
       /\ UNCHANGED <<stop_requested, now, audio_format, terminal, total_items,
                      item_calls, download_calls, single_vars>>

\* The service delivers a raw progress event to _progress_hook during the
\* download of entry idx.
PlaylistProgress ==
    /\ pc = "pl_transfer"
    /\ events_seen < MaxJobEvents
    /\ \E d \in JobEvents :
          IF hook_cancel_check
          THEN /\ playlist_transfer_done(HookCancelled)
               /\ UNCHANGED progress_vars
          ELSE /\ progress_hook_effect(d)
               /\ events_seen' = events_seen + 1
               /\ UNCHANGED <<stop_requested, now, pc, audio_format, attempts, download_calls,
                              terminal, trace, percent_before_item, playlist_vars,
                              single_vars>>
    /\ UNCHANGED <<window_vars, call>>

\* The service ends the download of entry idx by itself.
PlaylistTransferEnd ==
    /\ pc = "pl_transfer"
    /\ \E b \in PlaylistBehaviours : playlist_transfer_done(b)
    /\ UNCHANGED progress_vars
    /\ UNCHANGED <<window_vars, call>>

CountSuccess(rs) == Cardinality({i \in 1..Len(rs) : rs[i].success})

\* _download_playlist without its check of the flag after the batch.
PlaylistReturned_ignoring_stop ==
    /\ pc = "pl_returned"
    /\ terminal' = Append(terminal,
          IF CountSuccess(returned[1]) > 0
          THEN Signal("finished", <<"Downloaded ", ToString(CountSuccess(returned[1])), " tracks">>)
          ELSE Signal("error", <<"Failed to download any tracks from playlist">>))
    /\ pc' = "done"
    /\ UNCHANGED <<stop_requested, now, audio_format, attempts, download_calls,
                   progress_vars, playlist_vars, single_vars>>
    /\ UNCHANGED <<trace, window_vars, call>>

\* _download_playlist after download_playlist has returned.
PlaylistReturned ==
    /\ pc = "pl_returned"
    /\ terminal' = Append(terminal,
          IF stop_requested
          THEN Signal("error", PlaylistCancelledMsg)
          ELSE IF CountSuccess(returned[1]) > 0
          THEN Signal("finished", <<"Downloaded ", ToString(CountSuccess(returned[1])), " tracks">>)
          ELSE Signal("error", <<"Failed to download any tracks from playlist">>))
    /\ pc' = "done"
    /\ UNCHANGED <<stop_requested, now, audio_format, attempts, download_calls,
                   progress_vars, playlist_vars, single_vars>>
    /\ UNCHANGED <<trace, window_vars, call>>

(***************************************************************************)
(* Specification of whole jobs                                             *)
(***************************************************************************)
Init ==
    /\ call = <<>>
    /\ stop_requested = FALSE
    /\ last_progress = 0
    /\ last_progress_time = 0
    /\ last_status_time = 0
    /\ now = StartTime
    /\ pc = "run"
    /\ audio_format \in JobFormats
    /\ total_items = 0
    /\ idx = 0
    /\ results = <<>>
    /\ returned = None
    /\ retry_count = 0
    /\ result = None
    /\ escaped = None
    /\ attempts = <<>>
    /\ item_calls = <<>>
    /\ download_calls = <<>>
    /\ progress_emitted = <<>>
    /\ status_times = <<>>
    /\ events_seen = 0
    /\ percent_before_item = 0
    /\ terminal = <<>>
    /\ trace = <<>>
    /\ download_id_counter = 0
    /\ download_workers = <<>>
    /\ workers = <<>>
    /\ widget_status = <<>>
    /\ gui = GuiIdle
    /\ cancel_log = <<>>

Next ==
    \/ Stop
    \/ Run
    \/ SingleBegin
    \/ SingleCheckpoint
    \/ SingleProgress
    \/ SingleTransferEnd
    \/ PlaylistBegin
    \/ PlaylistInfo
    \/ PlaylistItem
    \/ PlaylistProgress
    \/ PlaylistTransferEnd
    \/ PlaylistReturned

Spec == Init /\ [][Next]_vars

\* The worker's thread keeps running and every call into the extraction
\* service returns or raises: a step of the worker that can be taken is
\* taken in the end.
WorkerStep ==
    \/ Run
    \/ SingleBegin
    \/ SingleCheckpoint
    \/ SingleTransferEnd
    \/ PlaylistBegin
    \/ PlaylistInfo
    \/ PlaylistItem
    \/ PlaylistTransferEnd
    \/ PlaylistReturned

SpecJobFair == Spec /\ WF_vars(WorkerStep)

(***************************************************************************)
(* Specification of the progress path alone: every raw event, with time    *)
(***************************************************************************)
\* _progress_hook receives a raw event while no stop is requested.
HookEvent ==
    /\ pc = "progress"
    /\ events_seen < MaxEvents
    /\ \E d \in RawEvents : progress_hook_effect(d)
    /\ events_seen' = events_seen + 1
    /\ UNCHANGED <<stop_requested, now, pc, audio_format, attempts, download_calls,
                   terminal, percent_before_item, playlist_vars, single_vars>>
    /\ UNCHANGED <<trace, window_vars, call>>

\* The next item of a playlist starts: _playlist_item_callback runs.
ItemStart ==
    /\ pc = "progress"
    /\ idx < MaxItemStarts
    /\ playlist_item_callback_effect
    /\ idx' = idx + 1
    /\ UNCHANGED <<stop_requested, now, pc, audio_format, attempts, download_calls,
                   terminal, total_items, results, returned, item_calls, single_vars>>
    /\ UNCHANGED <<trace, window_vars, call>>

InitProgress ==
    /\ call = <<>>
    /\ stop_requested = FALSE
    /\ last_progress = 0
    /\ last_progress_time = 0
    /\ last_status_time = 0
    /\ now = StartTime
    /\ pc = "progress"
    /\ audio_format = "mp3"
    /\ total_items = MaxItemStarts
    /\ idx = 0
    /\ results = <<>>
    /\ returned = None
    /\ retry_count = 0
    /\ result = None
    /\ escaped = None
    /\ attempts = <<>>
    /\ item_calls = <<>>
    /\ download_calls = <<>>
    /\ progress_emitted = <<>>
    /\ status_times = <<>>
    /\ events_seen = 0
    /\ percent_before_item = 0
    /\ terminal = <<>>
    /\ trace = <<>>
    /\ download_id_counter = 0
    /\ download_workers = <<>>
    /\ workers = <<>>
    /\ widget_status = <<>>
    /\ gui = GuiIdle
    /\ cancel_log = <<>>

NextProgress ==
    \/ Tick
    \/ HookEvent
    \/ ItemStart

SpecProgress == InitProgress /\ [][NextProgress]_vars

(***************************************************************************)
(* The main window: the registry of live downloads (main_window.py)        *)
(***************************************************************************)
\* worker.wait(3000): the grace period of a cancel, in seconds.
CancelGraceSeconds == 3

\* What the URLs a user may enter resolve to: a single video with its title,
\* or a collection with its title and the titles of its entries.  Two of the
\* videos carry the same title.
Urls == {"video_a", "video_b", "video_c", "list_a"}

UrlIsPlaylist(url) == url = "list_a"

UrlTitle(url) ==
    CASE url = "video_a" -> "Song"
      [] url = "video_b" -> "Other song"
      [] url = "video_c" -> "Song"
      [] OTHER -> "Album"

UrlEntryTitles(url) == IF UrlIsPlaylist(url) THEN <<"Song", "Other song">> ELSE <<>>

OutputDir == "Music"

\* Python truthiness of a str | None whose text is a string.
TruthyStr(opt) == opt # None /\ opt[1] # ""

\* f"{k:03d}" of an index k >= 0: zero-padded to a width of at least three.
Format03d(k) ==
    IF k < 10 THEN "00" \o ToString(k)
    ELSE IF k < 100 THEN "0" \o ToString(k)
    ELSE ToString(k)

\* to_ydl_opts with the index left to the extraction service's own counter.
output_template_service_index(output_dir, playlist_title, playlist_index) ==
    IF TruthyStr(playlist_title)
    THEN <<output_dir, "/", playlist_title[1], "/", "%(playlist_index)03d", " - ",
           "%(title)s", ".", "%(ext)s">>
    ELSE <<output_dir, "/", "%(title)s", ".", "%(ext)s">>

\* DownloadOptions.to_ydl_opts: the output template, as path components;
\* playlist_title and playlist_index are <<>> (None) or <<value>>.
output_template(output_dir, playlist_title, playlist_index) ==
    IF TruthyStr(playlist_title)
    THEN IF playlist_index # None
         THEN <<output_dir, "/", playlist_title[1], "/", Format03d(playlist_index[1]), " - ",
                "%(title)s", ".", "%(ext)s">>
         ELSE <<output_dir, "/", playlist_title[1], "/", "%(playlist_index)03d", " - ",
                "%(title)s", ".", "%(ext)s">>
    ELSE <<output_dir, "/", "%(title)s", ".", "%(ext)s">>

\* ydl.prepare_filename(info): the template with the fields of the metadata;
\* the service stores the source in a webm container.
prepare_filename(template, title) ==
    [k \in 1..Len(template) |->
        CASE template[k] = "%(title)s" -> title
          [] template[k] = "%(ext)s" -> "webm"
          [] OTHER -> template[k]]

\* The path the gateway reports for one download: the prepared file name
\* with the codec as extension.
target_path(template, title, format_name) ==
    YtDlpDownloadStrategy_download(
        [kind |-> "info", msg |-> prepare_filename(template, title)],
        FormatCodec(format_name)).value[1]

\* The output files a job started for url with format_name writes.
job_targets(url, format_name) ==
    IF UrlIsPlaylist(url)
    THEN { target_path(output_template(OutputDir, Some(UrlTitle(url)), Some(i)),
                       UrlEntryTitles(url)[i], format_name) :
             i \in 1..Len(UrlEntryTitles(url)) }
    ELSE { target_path(output_template(OutputDir, None, None), UrlTitle(url), format_name) }

\* A DownloadWorker as the window sees it.
\*   id             : the download id it was created for
\*   running        : QThread.isRunning()
\*   stop_requested : DownloadWorker._stop_requested
\*   progressed     : its hook has processed a raw progress event, so its
\*                    progress tracking is no longer as __init__ left it
\*   queued         : the terminal signal it emitted that the window has not
\*                    handled yet: "none", "finished" or "error"
\*   terminated     : QThread.terminate() was called on it
new_worker(id, url, format_name) ==
    [id |-> id, url |-> url, audio_format |-> format_name, running |-> TRUE,
     stop_requested |-> FALSE, progressed |-> FALSE, queued |-> "none", terminated |-> FALSE]

\* download_id_counter += 1
next_download_id_stuck(counter) == counter

next_download_id(counter) == counter + 1

\* next((w for w in self.download_workers if w['id'] == download_id), None)
find_worker_or_first(registry, download_id) ==
    IF registry = <<>> THEN None ELSE Some(registry[1])

find_worker(registry, download_id) ==
    IF \E k \in 1..Len(registry) : registry[k].id = download_id
    THEN Some(registry[CHOOSE k \in 1..Len(registry) :
                         /\ registry[k].id = download_id
                         /\ \A j \in 1..(k - 1) : registry[j].id # download_id])
    ELSE None

\* [w for w in self.download_workers if w['id'] != download_id]
without_id_keeping(registry, download_id) == registry

without_id(registry, download_id) ==
    SelectSeq(registry, LAMBDA w : w.id # download_id)

\* worker.stop() on the worker of worker_data.
stop_every_worker(ws, id) ==
    [k \in 1..Len(ws) |-> [ws[k] EXCEPT !.stop_requested = TRUE]]

stop_worker(ws, id) ==
    [ws EXCEPT ![id + 1].stop_requested = TRUE]

RegisteredIn(registry, id) == \E k \in 1..Len(registry) : registry[k].id = id

Registered(id) == RegisteredIn(download_workers, id)

GuiWaiting(id, waited) == [state |-> "waiting", id |-> id, waited |-> waited]

CancelCall(id, found) == [id |-> id, found |-> found]

\* _start_download with a URL that passes the validation and the format
\* selected in the combo box.
start_download(url, format_name) ==
    /\ gui = GuiIdle
    /\ download_id_counter < MaxJobs
    /\ LET download_id == download_id_counter
       IN /\ download_id_counter' = next_download_id(download_id_counter)
          /\ widget_status' = Append(widget_status, "Starting")
          /\ workers' = Append(workers, new_worker(download_id, url, format_name))
          /\ download_workers' = Append(download_workers, [id |-> download_id, url |-> url])
    /\ UNCHANGED <<gui, cancel_log, job_vars, call>>

\* The registry never looks at what a job downloads: where only the
\* registry matters, every job is started for the same URL and format.
StartDownload == start_download("video_a", "mp3")

\* Where the output files matter: any URL, any format.
StartAnyDownload == \E url \in Urls, format_name \in JobFormats : start_download(url, format_name)

\* A running worker's hook receives a raw progress event: it processes it,
\* or, the stop flag being set, raises, and run ends with an error signal.
WorkerProgress ==
    /\ \E k \in 1..Len(workers) :
          /\ workers[k].running
          /\ IF workers[k].stop_requested
             THEN workers' = [workers EXCEPT ![k].running = FALSE, ![k].queued = "error"]
             ELSE workers' = [workers EXCEPT ![k].progressed = TRUE]
    /\ UNCHANGED <<download_id_counter, download_workers, widget_status, gui, cancel_log,
                   job_vars, call>>

\* A running worker's run ends by itself, its terminal signal queued for the
\* window's thread.
WorkerEnd ==
    /\ \E k \in 1..Len(workers), sig \in {"finished", "error"} :
          /\ workers[k].running
          /\ workers' = [workers EXCEPT ![k].running = FALSE, ![k].queued = sig]
    /\ UNCHANGED <<download_id_counter, download_workers, widget_status, gui, cancel_log,
                   job_vars, call>>

\* The window's thread handles a queued terminal signal: _download_finished
\* or _download_error.
DeliverSignal ==
    /\ gui = GuiIdle
    /\ \E k \in 1..Len(workers) :
          /\ workers[k].queued # "none"
          /\ widget_status' = [widget_status EXCEPT ![k] =
                IF workers[k].queued = "finished" THEN "Completed" ELSE "Failed"]
          /\ download_workers' = without_id(download_workers, workers[k].id)
          /\ workers' = [workers EXCEPT ![k].queued = "none"]
    /\ UNCHANGED <<download_id_counter, gui, cancel_log, job_vars, call>>

\* _cancel_download(download_id) up to worker.wait: the lookup, isRunning,
\* worker.stop().
CancelDownload(download_id) ==
    /\ gui = GuiIdle
    /\ Len(cancel_log) < MaxCancels
    /\ LET worker_data == find_worker(download_workers, download_id)
       IN IF worker_data = None
          THEN /\ cancel_log' = Append(cancel_log, CancelCall(download_id, "absent"))
               /\ UNCHANGED <<workers, gui>>
          ELSE IF ~workers[worker_data[1].id + 1].running
          THEN /\ cancel_log' = Append(cancel_log, CancelCall(download_id, "not running"))
               /\ UNCHANGED <<workers, gui>>
          ELSE /\ cancel_log' = Append(cancel_log, CancelCall(download_id, "stopped"))
               /\ workers' = stop_worker(workers, worker_data[1].id)
               /\ gui' = GuiWaiting(worker_data[1].id, 0)
    /\ UNCHANGED <<download_id_counter, download_workers, widget_status, job_vars, call>>

\* The ids a cancel may be called with: those of the jobs started so far
\* and those not allocated yet.
CancelIds == 0..(MaxJobs - 1)

Cancel == \E download_id \in CancelIds : CancelDownload(download_id)

\* worker.wait(3000) goes on: a second passes, the worker still running.
WaitTick ==
    /\ gui.state = "waiting"
    /\ workers[gui.id + 1].running
    /\ gui.waited < CancelGraceSeconds
    /\ gui' = [gui EXCEPT !.waited = @ + 1]
    /\ UNCHANGED <<download_id_counter, download_workers, workers, widget_status,
                   cancel_log, job_vars, call>>

\* worker.wait returns, the worker having ended or the grace period being
\* over; the rest of _cancel_download: terminate() if the worker still
\* runs, the status label, the removal from download_workers.  terminate()
\* may or may not have stopped the thread when it returns.
CancelReturn ==
    /\ gui.state = "waiting"
    /\ ~workers[gui.id + 1].running \/ gui.waited = CancelGraceSeconds
    /\ IF workers[gui.id + 1].running
       THEN \E stopped_at_once \in BOOLEAN :
               workers' = [workers EXCEPT ![gui.id + 1].terminated = TRUE,
                                          ![gui.id + 1].running = ~stopped_at_once]
       ELSE workers' = workers
    /\ widget_status' = [widget_status EXCEPT ![gui.id + 1] = "Cancelled"]
    /\ download_workers' = without_id(download_workers, gui.id)
    /\ gui' = GuiIdle
    /\ UNCHANGED <<download_id_counter, cancel_log, job_vars, call>>

\* A thread that terminate() was called on stops.
TerminateTakesEffect ==
    /\ \E k \in 1..Len(workers) :
          /\ workers[k].terminated
          /\ workers[k].running
          /\ workers' = [workers EXCEPT ![k].running = FALSE]
    /\ UNCHANGED <<download_id_counter, download_workers, widget_status, gui, cancel_log,
                   job_vars, call>>

InitWindow ==
    /\ call = <<>>
    /\ stop_requested = FALSE
    /\ last_progress = 0
    /\ last_progress_time = 0
    /\ last_status_time = 0
    /\ now = StartTime
    /\ pc = "window"
    /\ audio_format = "mp3"
    /\ total_items = 0
    /\ idx = 0
    /\ results = <<>>
    /\ returned = None
    /\ retry_count = 0
    /\ result = None
    /\ escaped = None
    /\ attempts = <<>>
    /\ item_calls = <<>>
    /\ download_calls = <<>>
    /\ progress_emitted = <<>>
    /\ status_times = <<>>
    /\ events_seen = 0
    /\ percent_before_item = 0
    /\ terminal = <<>>
    /\ trace = <<>>
    /\ download_id_counter = 0
    /\ download_workers = <<>>
    /\ workers = <<>>
    /\ widget_status = <<>>
    /\ gui = GuiIdle
    /\ cancel_log = <<>>

NextWindow ==
    \/ StartDownload
    \/ WorkerProgress
    \/ WorkerEnd
    \/ DeliverSignal
    \/ Cancel
    \/ WaitTick
    \/ CancelReturn
    \/ TerminateTakesEffect

SpecWindow == InitWindow /\ [][NextWindow]_vars

\* worker.wait(3000) returns when its time is over, and the handler then
\* runs to its end.
SpecWindowFair == SpecWindow /\ WF_vars(WaitTick) /\ WF_vars(CancelReturn)

\* The jobs a user starts and their ends, for the output files they share.
NextTargets ==
    \/ StartAnyDownload
    \/ WorkerEnd
    \/ DeliverSignal

SpecTargets == InitWindow /\ [][NextTargets]_vars

(***************************************************************************)
(* The functions of the core applied on their own: `call` holds the last   *)
(* call with its arguments and what it returned.                           *)
(***************************************************************************)
\* Every action applies one function once, to arguments of its choice.
Called(fn, args, value) == Some([fn |-> fn, args |-> args, value |-> value])

\* Playlist titles and indices a DownloadOptions may carry.
PlaylistTitleOpts == {None, Some(""), Some("My Mix"), Some("Album")}
PlaylistIndexOpts == {None} \cup {Some(k) : k \in {1, 7, 12, 123}}

(***************************************************************************)
(* File names character by character (src/src/utils/helpers.py)            *)
(***************************************************************************)
\* The class [<>:"/\\|?*] of the two regular expressions.
ForbiddenChars == {"<", ">", ":", "\"", "/", "\\", "|", "?", "*"}

\* Characters \s matches and str.strip removes.
WhitespaceChars == {" ", "\t", "\n"}

\* The characters names are drawn from, and the names themselves.
NameChars == {"a", " ", "\t", "/", ":", "*"}
Names == UNION { [1..n -> NameChars] : n \in 0..MaxNameLen }

\* re.sub(r'[<>:"/\\|?*]', repl, s), repl being a sequence of characters.
RECURSIVE SubForbidden(_, _)
SubForbidden(repl, s) ==
    IF s = <<>> THEN <<>>
    ELSE (IF Head(s) \in ForbiddenChars THEN repl ELSE <<Head(s)>>)
         \o SubForbidden(repl, Tail(s))

\* re.sub(r"\s+", " ", s): every maximal run of whitespace becomes one space.
RECURSIVE SubWhitespace(_)
SubWhitespace(s) ==
    IF s = <<>> THEN <<>>
    ELSE IF Head(s) \notin WhitespaceChars THEN <<Head(s)>> \o SubWhitespace(Tail(s))
    ELSE IF Len(s) > 1 /\ s[2] \in WhitespaceChars THEN SubWhitespace(Tail(s))
    ELSE <<" ">> \o SubWhitespace(Tail(s))

\* s.lstrip() and s.strip()
RECURSIVE LStrip(_)
LStrip(s) == IF s # <<>> /\ Head(s) \in WhitespaceChars THEN LStrip(Tail(s)) ELSE s

RECURSIVE Strip(_)
Strip(s) ==
    IF s # <<>> /\ s[Len(s)] \in WhitespaceChars
    THEN Strip(SubSeq(s, 1, Len(s) - 1))
    ELSE LStrip(s)

Untitled == <<"u", "n", "t", "i", "t", "l", "e", "d">>

\* sanitize_filename with its last line returning the trimmed name as it is.
sanitize_filename_without_fallback(filename) ==
    Strip(SubWhitespace(SubForbidden(<<>>, filename)))

sanitize_filename(filename) ==
    LET trimmed == Strip(SubWhitespace(SubForbidden(<<>>, filename)))
    IN IF trimmed # <<>> THEN trimmed ELSE Untitled

SanitizeFilename ==
    /\ call = None
    /\ \E filename \in Names :
          call' = Called("sanitize_filename", filename, sanitize_filename(filename))
    /\ UNCHANGED <<job_vars, window_vars>>

\* download_playlist, for one item: the playlist_title it hands to the
\* options builder; title is info's 'title', <<>> when the key is missing.
PlaylistDefaultTitle == <<"P", "l", "a", "y", "l", "i", "s", "t">>

item_playlist_title(title) ==
    SubForbidden(<<"_">>, IF title = None THEN PlaylistDefaultTitle ELSE title[1])

\* The items of one collection, each with the playlist_title computed for it.
ItemPlaylistTitles ==
    /\ call = None
    /\ \E title \in {None} \cup {Some(n) : n \in Names}, total \in 1..MaxEntries :
          call' = Called("download_playlist", title,
                         [i \in 1..total |-> item_playlist_title(title)])
    /\ UNCHANGED <<job_vars, window_vars>>

(***************************************************************************)
(* AudioDownloader.get_video_info and is_playlist                          *)
(***************************************************************************)
\* A metadata dict: the keys it holds and, when '_type' is one, its value.
Info(keys, type) == [keys |-> keys, type |-> type]

\* What the injected extractor's extract_info may do: return None, an empty
\* dict, metadata without '_type', metadata of each kind, or raise.
ExtractorOutcomes ==
    { Return(None), Return(Some(Info({}, ""))), Return(Some(Info({"title"}, ""))) }
    \cup { Return(Some(Info({"title", "_type"}, t))) : t \in {"playlist", "video", "multi_video"} }
    \cup { Raise(Exc("VideoInfoError", <<"Failed to extract video info: ", "HTTP Error 403">>)),
            Raise(Exc("Exception", <<"HTTP Error 403">>)) }

get_video_info(r) ==
    IF r.kind = "raise" /\ r.exc.type = "VideoInfoError" THEN Return(None) ELSE r

\* info.get('_type', default)
InfoType(info, default) == IF "_type" \in info.keys THEN info.type ELSE default

\* is_playlist with 'playlist' as the kind of metadata that names none.
is_playlist_default_playlist(r) ==
    LET info == get_video_info(r)
    IN IF info.kind = "raise" THEN Return(FALSE)
       ELSE IF info.value # None /\ info.value[1].keys # {}
       THEN Return(InfoType(info.value[1], "playlist") = "playlist")
       ELSE Return(FALSE)

\* is_playlist, r being what extract_info does for the URL.
is_playlist(r) ==
    LET info == get_video_info(r)
    IN IF info.kind = "raise" THEN Return(FALSE)
       ELSE IF info.value # None /\ info.value[1].keys # {}
       THEN Return(InfoType(info.value[1], "video") = "playlist")
       ELSE Return(FALSE)

IsPlaylist ==
    /\ call = None
    /\ \E r \in ExtractorOutcomes : call' = Called("is_playlist", r, is_playlist(r))
    /\ UNCHANGED <<job_vars, window_vars>>

\* The gateway called on its own, the service behaving as b.
StrategyDownload ==
    /\ call = None
    /\ \E b \in ServiceBehaviours \cup {HookCancelled}, format_name \in FormatNames :
          call' = Called("strategy_download", <<b, FormatCodec(format_name)>>,
                         YtDlpDownloadStrategy_download(b, FormatCodec(format_name)))
    /\ UNCHANGED <<job_vars, window_vars>>

\* Every 'downloading' event over the strings and counters above.
DownloadingEvents ==
    { Downloading(ps, bc[1], bc[2], bc[3], fc[1], fc[2]) :
        ps \in {NoPercentStr, BadPercentStr} \cup {PercentStr(t) : t \in PercentTenths},
        bc \in ByteCounters, fc \in FragmentCounters }

\* _progress_hook on a 'downloading' event, up to line 316: the percent it
\* derives, and whether it hands int(percent) to _smooth_progress_update.
ProgressHookPercent ==
    /\ call = None
    /\ \E d \in DownloadingEvents :
          call' = Called("progress_hook", d,
                         [percent |-> DerivePercent(d), update |-> DerivePercent(d).num > 0])
    /\ UNCHANGED <<job_vars, window_vars>>

\* _smooth_progress_update called with new_progress when _last_progress is
\* last and was set elapsed ticks ago.
RawPercents == {0, 4, 25, 50, 100}
LastPercents == {0, 4, 30, 80}

SmoothProgressUpdate ==
    /\ call = None
    /\ \E new_progress \in RawPercents, last \in LastPercents,
          elapsed \in {0, ProgressUpdateInterval} :
          call' = Called("smooth_progress_update", <<new_progress, last, elapsed>>,
                         smooth_progress_update(new_progress, last, now - elapsed, now))
    /\ UNCHANGED <<job_vars, window_vars>>

(***************************************************************************)
(* download_playlist: the URL an entry is dispatched with                  *)
(***************************************************************************)
\* Collection URLs: two spellings of the video site, and another site.
CollectionUrls ==
    { <<"https://", "www.", "youtube.com", "/playlist?list=", "PL1">>,
      <<"https://", "youtu.be", "/playlist?list=", "PL1">>,
      <<"https://", "soundcloud.com", "/artist/sets/", "PL1">> }

\* An entry of info['entries']: each key holds <<>> (missing) or <<text>>.
Entry(webpage_url, direct_url, id) == [webpage_url |-> webpage_url, url |-> direct_url, id |-> id]

EntryIds == { <<"abc">>, <<"https://", "example.com", "/v/", "abc">> }

Entries ==
    { Entry(w, u, i) :
        w \in {None, Some(<<"https://", "www.", "youtube.com", "/watch?v=", "abc", "&list=", "PL1">>)},
        u \in {None, Some(<<>>), Some(<<"https://", "cdn.example.com", "/abc">>)}
                 \cup {Some(id) : id \in EntryIds},
        i \in {None} \cup {Some(id) : id \in EntryIds} }

\* a or b, for two values of entry.get
Or(a, b) == IF Truthy(a) THEN a ELSE b

\* f"https://www.youtube.com/watch?v={entry_id}"
WatchUrl(entry_id) == <<"https://", "www.", "youtube.com", "/watch?v=">> \o entry_id

\* Lines 550-562: <<>> when the entry is skipped with "No URL found", else
\* <<the URL the entry is dispatched with>>.
entry_url(entry, index, url) ==
    LET chosen == Or(entry.webpage_url, Or(entry.url, entry.id))
        entry_id == IF entry.id # None THEN entry.id[1] ELSE <<"unknown_", ToString(index)>>
    IN IF ~Truthy(chosen) THEN None
       ELSE IF chosen[1] = entry_id /\ Contains(url, "youtube.com") THEN Some(WatchUrl(entry_id))
       ELSE IF chosen[1] = entry_id /\ Contains(url, "youtu.be") THEN Some(WatchUrl(entry_id))
       ELSE chosen

EntryUrl ==
    /\ call = None
    /\ \E entry \in Entries, url \in CollectionUrls, i \in 1..MaxEntries :
          call' = Called("entry_url", <<entry, i, url>>, entry_url(entry, i, url))
    /\ UNCHANGED <<job_vars, window_vars>>

WithAudioFormat ==
    /\ call = None
    /\ \E format_name \in FormatSpellings, quality \in Qualities :
          call' = Called("with_audio_format", <<format_name, quality>>,
                         with_audio_format(format_name, quality))
    /\ UNCHANGED <<job_vars, window_vars>>

\* download_playlist, lines 568-588: the options of item index of a
\* collection titled title, as the output template to_ydl_opts gives.
item_output_template(title, index) ==
    output_template(OutputDir, Some(Text(item_playlist_title(title))), Some(index))

\* The items of one collection, each with its output template.
ItemOutputTemplates ==
    /\ call = None
    /\ \E title \in {None} \cup {Some(n) : n \in Names}, total \in 1..MaxEntries :
          call' = Called("item_output_templates", <<title, total>>,
                         [i \in 1..total |-> item_output_template(title, i)])
    /\ UNCHANGED <<job_vars, window_vars>>

ToYdlOpts ==
    /\ call = None
    /\ \E playlist_title \in PlaylistTitleOpts, playlist_index \in PlaylistIndexOpts :
          call' = Called("to_ydl_opts", <<OutputDir, playlist_title, playlist_index>>,
                         output_template(OutputDir, playlist_title, playlist_index))
    /\ UNCHANGED <<job_vars, window_vars>>

NextCore ==
    \/ ToYdlOpts
    \/ SanitizeFilename
    \/ ItemPlaylistTitles
    \/ WithAudioFormat
    \/ IsPlaylist
    \/ StrategyDownload
    \/ ItemOutputTemplates
    \/ EntryUrl
    \/ ProgressHookPercent
    \/ SmoothProgressUpdate

SpecCore == Init /\ [][NextCore]_vars

(***************************************************************************)
(* Properties                                                              *)
(***************************************************************************)
Range(seq) == { seq[i] : i \in 1..Len(seq) }

Last(seq) == seq[Len(seq)]

\* download_playlist treated the behaviour met at an entry as a cancellation.
ObservedCancellation(b) ==
    \/ b.kind \in {"cancelled", "item_cancelled"}
    \/ b.kind = "unexpected" /\ Contains(LowerMsg(b.msg), "cancelled")

Dispatchable(b) == b.kind \notin {"none", "nourl", "item_cancelled"}

\* C1: download_playlist on a collection of N >= 1 entries, no cancellation
\* observed (no DownloadCancelled, no exception whose text says cancelled),
\* returns exactly N results, result i being a success exactly when the
\* download of entry i returned a path; every entry that has a URL was
\* dispatched, whatever failed before it.
C1_OneResultPerEntry ==
    (returned # None /\ total_items >= 1
        /\ \A i \in 1..Len(attempts) : ~ObservedCancellation(attempts[i]))
    => /\ Len(returned[1]) = total_items
       /\ Len(attempts) = total_items
       /\ \A i \in 1..total_items :
             /\ returned[1][i].success <=> attempts[i].kind = "info"
             /\ Dispatchable(attempts[i]) => i \in Range(download_calls)

C1_Witness ==
    /\ returned # None
    /\ total_items = 3
    /\ Len(attempts) = 3
    /\ attempts[1].kind = "info"
    /\ attempts[2].kind \in {"error", "unexpected"}
    /\ ~ObservedCancellation(attempts[2])
    /\ attempts[3].kind = "info"
    /\ download_calls = <<1, 2, 3>>

\* C2: when the progress hook observes the stop flag during the transfer of
\* item k, download_playlist returns exactly k results: those of items
\* 1..k-1 in entry order, then one cancellation failure; no item beyond k
\* is ever announced or dispatched.
C2_CancelDuringTransfer ==
    \A k \in 1..Len(attempts) :
        (total_items >= 1 /\ attempts[k].kind = "cancelled")
        => /\ k = Len(attempts)
           /\ returned # None
           /\ Len(returned[1]) = k
           /\ \A i \in 1..(k - 1) : returned[1][i] = results[i]
           /\ \A i \in 1..(k - 1) : returned[1][i].success <=> attempts[i].kind = "info"
           /\ returned[1][k] = failure_result(CancelledMsg)
           /\ \A i \in Range(item_calls) \cup Range(download_calls) : i <= k

C2_Witness ==
    /\ returned # None
    /\ total_items = 3
    /\ Len(attempts) = 2
    /\ attempts[1].kind = "info"
    /\ attempts[2].kind = "cancelled"
    /\ pc = "done"

\* C3: when the item-start callback of item k observes the stop flag,
\* download_playlist returns the accumulated results of items 1..k-1 in
\* entry order followed by exactly one cancellation result, and item k and
\* the later items are never dispatched.
C3_CancelAtItemStart ==
    (returned # None /\ attempts # <<>> /\ Last(attempts).kind = "item_cancelled")
    => LET k == Len(attempts)
           rs == returned[1]
       IN /\ Len(rs) = k
          /\ \A i \in 1..(k - 1) : rs[i] = results[i]
          /\ ~rs[k].success
          /\ Contains(LowerMsg(rs[k].error_message[1]), "cancelled")
          /\ \A i \in Range(item_calls) \cup Range(download_calls) : i < k

\* C4: in a single-item job, an attempt the gateway classifies as
\* ProbeFailure, fewer than 3 attempts having been made, is followed by
\* another attempt.
C4_ProbeFailureRetried ==
    (result # None /\ Len(attempts) < 3 /\ AttemptKind(Last(attempts)) = "ProbeFailure")
    => pc = "single_transfer"

\* C5: a single-item job makes at most 3 execute attempts, and an attempt
\* that succeeds, is cancelled, or fails as CorruptSource or Unknown is the
\* last one and ends the job with the matching terminal signal.
C5_TerminalAttempts ==
    result # None
    => /\ Len(attempts) + (IF pc = "single_transfer" THEN 1 ELSE 0) <= 3
       /\ \A i \in 1..Len(attempts) :
             AttemptKind(attempts[i]) \in {"Success", "Cancelled", "CorruptSource", "Unknown"}
             => /\ i = Len(attempts)
                /\ pc = "done"
                /\ Len(terminal) = 1
                /\ terminal[1].sig = (IF AttemptKind(attempts[i]) = "Success"
                                      THEN "finished" ELSE "error")

\* C6: the values emitted on the progress signal for one item are
\* non-decreasing, for every sequence of raw events.
C6_ProgressNonDecreasing ==
    \A i \in 1..(Len(progress_emitted) - 1) : progress_emitted[i] <= progress_emitted[i + 1]

\* C7: every value emitted on the progress signal lies in 0..100.
C7_ProgressBounded ==
    \A i \in 1..Len(progress_emitted) : progress_emitted[i] \in 0..100

\* C8: once the item-start callback of a playlist item has run, and before
\* any progress event of that item, the last-known percent and both timers
\* are 0 and the value emitted last is 0.
C8_ItemStartResets ==
    (pc = "pl_transfer" /\ events_seen = 0)
    => /\ last_progress = 0
       /\ last_progress_time = 0
       /\ last_status_time = 0
       /\ progress_emitted = <<0>>

C8_Witness ==
    /\ pc = "pl_transfer"
    /\ events_seen = 0
    /\ item_calls = <<1, 2>>
    /\ percent_before_item > 0
    /\ last_progress = 0

\* C9: download returns a DownloadResult for every behaviour of the service
\* under it and never lets an exception out; a failure result carries a
\* non-empty message.
C9_DownloadNeverThrows ==
    /\ escaped = None
    /\ \A i \in 1..Len(attempts) :
          LET r == AudioDownloader_download(attempts[i], audio_format)
          IN Dispatchable(attempts[i])
             => /\ r.kind = "return"
                /\ ~r.value.success => Truthy(r.value.error_message)
    /\ result # None => (~result[1].success => Truthy(result[1].error_message))

C9_Witness ==
    /\ result # None
    /\ pc = "done"
    /\ Last(attempts).kind = "unexpected"
    /\ Last(attempts).msg = <<>>
    /\ ~result[1].success

WellFormed(r) ==
    IF r.success
    THEN r.file_path # None /\ r.file_path[1] # <<>> /\ r.error_message = None
    ELSE r.error_message # None /\ r.file_path = None

\* C10: every DownloadResult of download and download_playlist carries
\* exactly one payload: a success a non-empty path and no message, a
\* failure a message and no path.
C10_OnePayload ==
    /\ result # None => WellFormed(result[1])
    /\ \A i \in 1..Len(results) : WellFormed(results[i])
    /\ returned # None => \A i \in 1..Len(returned[1]) : WellFormed(returned[1][i])

C10_Witness ==
    /\ returned # None
    /\ \E i, j \in 1..Len(returned[1]) : returned[1][i].success /\ ~returned[1][j].success

\* Positions of the trace holding an event of kind ev.
EvAt(ev) == { p \in 1..Len(trace) : trace[p].ev = ev }

\* C11: in a single-item job, when get_video_info yields nothing at the
\* fetch-info step, that resolution is the last call of the job (it is not
\* retried), the job has ended with the one error signal "Failed to fetch
\* video information", and no execute attempt was or will be made.
C11_NoInfoIsTerminal ==
    \A p \in EvAt("get_video_info") :
        (trace[p].what = "fetch_info" /\ trace[p].title = <<>>)
        => /\ p = Len(trace)
           /\ Cardinality(EvAt("get_video_info")) = 1
           /\ pc = "done"
           /\ attempts = <<>>
           /\ download_calls = <<>>
           /\ result = None
           /\ terminal = <<Signal("error", <<"Failed to fetch video information">>)>>

C11_Witness ==
    /\ trace = <<InfoEv("fetch_info", "none")>>
    /\ pc = "done"
    /\ ~stop_requested
    /\ Len(terminal) = 1

\* C12: when the progress hook raises DownloadCancelled during the execute
\* call of a single-item job, the gateway lets it through as it is (not as a
\* DownloadError), download returns failure("Download cancelled by user"),
\* and that text differs from the message download returns for every
\* CorruptSource, ProbeFailure and Unknown failure.
C12_CancellationDistinguished ==
    (total_items = 0 /\ result # None /\ Last(attempts).kind = "cancelled")
    => LET r == YtDlpDownloadStrategy_download(Last(attempts), FormatCodec(audio_format))
       IN /\ r.kind = "raise"
          /\ r.exc.type = "DownloadCancelled"
          /\ result[1] = failure_result(CancelledMsg)
          /\ Text(result[1].error_message[1]) = "Download cancelled by user"
          /\ \A b \in ServiceBehaviours :
                AttemptKind(b) \in {"CorruptSource", "ProbeFailure", "Unknown"}
                => LET f == AudioDownloader_download(b, audio_format)
                   IN /\ f.kind = "return"
                      /\ ~f.value.success
                      /\ Text(f.value.error_message[1]) # Text(result[1].error_message[1])

C12_Witness ==
    /\ total_items = 0
    /\ result # None
    /\ Last(attempts) = HookCancelled
    /\ stop_requested
    /\ pc = "done"
    /\ terminal = <<Signal("error", CancelledMsg)>>

\* C13: with the stop flag set while a transfer is active, the delivery of
\* the next raw progress event ends that transfer as cancelled: the hook
\* emits no progress value and no status text and updates nothing for the
\* event, and the transfer is over, so no later event of it is processed.
C13_StopAbortsAtNextEvent ==
    [][ (stop_requested /\ (SingleProgress \/ PlaylistProgress))
        => /\ attempts' = Append(attempts, HookCancelled)
           /\ UNCHANGED <<progress_emitted, status_times, last_progress,
                          last_progress_time, last_status_time, events_seen>>
           /\ pc' \notin {"single_transfer", "pl_transfer"} ]_vars

C13_Witness ==
    /\ stop_requested
    /\ attempts # <<>>
    /\ Last(attempts) = HookCancelled
    /\ events_seen > 0
    /\ Len(progress_emitted) > 0
    /\ pc \in {"done", "pl_returned"}

\* C14: download_playlist whose metadata is absent or not a collection
\* returns the single result failure("URL is not a playlist"); on a
\* collection without entries it returns a single failure whose message
\* contains "empty"; in both cases neither the item-start callback nor the
\* strategy is ever invoked.
C14_NothingToDownload ==
    \A p \in EvAt("get_video_info") :
        (trace[p].what = "download_playlist" /\ total_items = 0)
        => /\ returned # None
           /\ Len(returned[1]) = 1
           /\ ~returned[1][1].success
           /\ IF trace[p].i = 0
              THEN Text(returned[1][1].error_message[1]) = "URL is not a playlist"
              ELSE Contains(returned[1][1].error_message[1], "empty")
           /\ item_calls = <<>>
           /\ download_calls = <<>>
           /\ attempts = <<>>
           /\ EvAt("item_callback") \cup EvAt("dispatch") = {}

C14_Witness ==
    /\ pc = "done"
    /\ returned = Some(<<failure_result(<<"Playlist is ", "empty">>)>>)
    /\ \E p \in EvAt("get_video_info") : trace[p].what = "download_playlist" /\ trace[p].i = 1

\* C15: in a collection job every dispatch of entry i comes right after the
\* item-start callback invoked with (i, N, title of entry i); an item-start
\* callback is invoked only when every download dispatched before it has
\* returned, so at most one download is in flight; callbacks come in
\* increasing entry order.
C15_SequentialItems ==
    /\ \A p \in EvAt("dispatch") :
          /\ p > 1
          /\ trace[p - 1] = Ev("item_callback", "emitted", trace[p].i, total_items,
                               EntryTitle(trace[p].i))
          /\ trace[p].i \in 1..total_items
    /\ \A p \in EvAt("item_callback") :
          /\ Cardinality({q \in EvAt("dispatch") : q < p})
               = Cardinality({q \in EvAt("returned") : q < p})
          /\ \A q \in EvAt("dispatch") : q < p =>
                \E r \in EvAt("returned") : q < r /\ r < p /\ trace[r].i = trace[q].i
          /\ \A q \in EvAt("item_callback") : q < p => trace[q].i < trace[p].i
    /\ Cardinality(EvAt("dispatch")) - Cardinality(EvAt("returned"))
          = (IF pc = "pl_transfer" THEN 1 ELSE 0)

C15_Witness ==
    /\ pc = "done"
    /\ total_items = 3
    /\ item_calls = <<1, 3>>
    /\ Cardinality(EvAt("returned")) = 2
    /\ \E p \in EvAt("item_callback") : trace[p].i = 3 /\ trace[p].what = "emitted"

\* A call of _cancel_download(id) that found the job running has returned.
CancelReturned(id) ==
    /\ \E k \in 1..Len(cancel_log) : cancel_log[k] = CancelCall(id, "stopped")
    /\ ~(gui.state = "waiting" /\ gui.id = id)

\* C16: ids are allocated in strictly increasing order, and no two entries
\* of download_workers carry the same id, whatever the order of starts,
\* finished and error signals and cancels.
C16_UniqueIds ==
    /\ \A j, k \in 1..Len(workers) : j < k => workers[j].id < workers[k].id
    /\ \A k \in 1..Len(workers) : workers[k].id < download_id_counter
    /\ \A j, k \in 1..Len(download_workers) :
          j # k => download_workers[j].id # download_workers[k].id
    /\ \A k \in 1..Len(download_workers) :
          /\ download_workers[k].id + 1 \in 1..Len(workers)
          /\ workers[download_workers[k].id + 1].id = download_workers[k].id

C16_Witness ==
    /\ download_id_counter = 2
    /\ Len(download_workers) = 1
    /\ download_workers[1].id = 1
    /\ widget_status[1] = "Cancelled"

\* C17: _cancel_download(id) on a registered running job sets that job's
\* stop flag; called for an id that is not registered (never was, or was
\* removed), in particular a second time after a cancel of a running job
\* has returned, it changes no worker, no registry entry and no status.
C17_CancelIdempotent ==
    [][ \A id \in CancelIds :
          CancelDownload(id)
          => /\ (Registered(id) /\ workers[id + 1].running)
                  => /\ workers'[id + 1].stop_requested
                     /\ gui'.state = "waiting"
                     /\ gui'.id = id
             /\ CancelReturned(id) => ~Registered(id)
             /\ ~Registered(id)
                  => UNCHANGED <<workers, download_workers, widget_status, gui,
                                 download_id_counter>> ]_vars

C17_Witness ==
    /\ cancel_log = <<CancelCall(0, "stopped"), CancelCall(0, "absent")>>
    /\ Len(download_workers) = 1
    /\ workers[2].running
    /\ ~workers[2].stop_requested

\* C18: a call of _cancel_download(id), from the lookup to its return,
\* leaves every other job as it was: its worker (stop flag, progress
\* tracking, queued signal), its status label, and whether it is registered.
C18_CancelOnlyThatJob ==
    [][ \A id \in CancelIds :
          (CancelDownload(id) \/ (CancelReturn /\ gui.id = id))
          => \A k \in 1..Len(workers) :
                workers[k].id # id
                => /\ workers'[k] = workers[k]
                   /\ widget_status'[k] = widget_status[k]
                   /\ RegisteredIn(download_workers', workers[k].id)
                        <=> RegisteredIn(download_workers, workers[k].id) ]_vars

C18_Witness ==
    /\ Len(workers) = 2
    /\ CancelReturned(0)
    /\ workers[1].stop_requested
    /\ ~Registered(0)
    /\ workers[2].running
    /\ workers[2].progressed
    /\ ~workers[2].stop_requested
    /\ Registered(1)

\* C19: a call of _cancel_download for a running job waits no longer than
\* the grace period, terminates the worker exactly when it still runs at
\* the end of the wait (which is then the whole grace period), always
\* returns, and leaves the job out of download_workers, even when the
\* worker never takes another step.
C19_CancelGracePeriod ==
    /\ [](gui.state = "waiting" => gui.waited <= CancelGraceSeconds)
    /\ [](\A id \in CancelIds : CancelReturned(id) => ~Registered(id))
    /\ [][ CancelReturn
           => /\ workers'[gui.id + 1].terminated <=> workers[gui.id + 1].running
              /\ workers[gui.id + 1].running => gui.waited = CancelGraceSeconds
              /\ ~RegisteredIn(download_workers', gui.id) ]_vars
    /\ (gui.state = "waiting") ~> (gui = GuiIdle)

C19_Witness ==
    /\ Len(workers) = 1
    /\ workers[1].terminated
    /\ workers[1].stop_requested
    /\ workers[1].queued = "none"
    /\ ~workers[1].progressed
    /\ gui = GuiIdle
    /\ ~Registered(0)
    /\ widget_status[1] = "Cancelled"

\* C20: no two registered jobs whose workers run write to the same output
\* file.
C20_DistinctTargets ==
    \A j, k \in 1..Len(download_workers) :
        LET a == workers[download_workers[j].id + 1]
            b == workers[download_workers[k].id + 1]
        IN (j # k /\ a.running /\ b.running)
           => job_targets(a.url, a.audio_format) \cap job_targets(b.url, b.audio_format) = {}

\* The last call, when it is a call of fn.
IsCall(fn) == call # None /\ call[1].fn = fn

\* An index 0..999 written with exactly three decimal digits.
ThreeDigits(k) == ToString(k \div 100) \o ToString((k \div 10) % 10) \o ToString(k % 10)

\* C21: options with a playlist title T and index k give the template
\* outputDir/T/kkk - title.ext, kkk being k zero-padded to three digits and
\* taken from the options, never the extraction service's own playlist
\* index; options without a playlist title give outputDir/title.ext.  With
\* 'My Mix', 7, the title 'Song' and mp3 the file is
\* outputDir/My Mix/007 - Song.mp3.
C21_OutputTemplate ==
    IsCall("to_ydl_opts") =>
        LET output_dir == call[1].args[1]
            playlist_title == call[1].args[2]
            playlist_index == call[1].args[3]
            template == call[1].value
        IN /\ TruthyStr(playlist_title) /\ playlist_index # None =>
                /\ Text(template) = output_dir \o "/" \o playlist_title[1] \o "/"
                                      \o ThreeDigits(playlist_index[1])
                                      \o " - %(title)s.%(ext)s"
                /\ ~Contains(template, "%(playlist_index)03d")
           /\ ~TruthyStr(playlist_title) =>
                Text(template) = output_dir \o "/%(title)s.%(ext)s"
           /\ playlist_title = Some("My Mix") /\ playlist_index = Some(7) =>
                Text(target_path(template, "Song", "mp3"))
                    = output_dir \o "/My Mix/007 - Song.mp3"

C21_Witness ==
    /\ IsCall("to_ydl_opts")
    /\ call[1].args = <<OutputDir, Some("My Mix"), Some(7)>>
    /\ Text(call[1].value) = "Music/My Mix/007 - %(title)s.%(ext)s"

\* C22: the subdirectory of the items of a collection is named
\* sanitize(collection title): forbidden characters stripped, whitespace
\* collapsed, trimmed, 'untitled' when nothing is left; and every item of
\* the collection gets the same name.
C22_PlaylistDirectorySanitized ==
    IsCall("download_playlist") /\ call[1].args # None =>
        \A i \in 1..Len(call[1].value) :
            call[1].value[i] = sanitize_filename(call[1].args[1])

\* C23: the name sanitize_filename returns holds none of < > : " / \ | ? *
\* and is never empty; for an input that is empty or made of forbidden
\* characters and whitespace only it is 'untitled'.
C23_SanitizedName ==
    IsCall("sanitize_filename") =>
        LET filename == call[1].args
            name == call[1].value
        IN /\ name # <<>>
           /\ \A i \in 1..Len(name) : name[i] \notin ForbiddenChars
           /\ (\A i \in 1..Len(filename) :
                    filename[i] \in ForbiddenChars \cup WhitespaceChars)
                => name = Untitled

C23_Witness ==
    /\ IsCall("sanitize_filename")
    /\ call[1].args = <<"/", " ", "*">>
    /\ call[1].value = Untitled

\* C24: resolving a format name never fails, whatever the name and the
\* quality; whatever its letter case, mp3 gives (mp3, quality, mp3), flac
\* (flac, best, flac), wav (wav, best, wav), m4a (aac, quality, m4a), opus
\* (opus, quality, opus), and any other name gives mp3 with the quality.
C24_FormatResolution ==
    IsCall("with_audio_format") =>
        LET format_name == call[1].args[1]
            quality == call[1].args[2]
            format == call[1].value
            triple == <<format.codec, format.quality, format.extension>>
        IN CASE format_name \in {"mp3", "MP3"} -> triple = <<"mp3", quality, "mp3">>
             [] format_name \in {"flac", "Flac"} -> triple = <<"flac", "best", "flac">>
             [] format_name \in {"wav", "WAV"} -> triple = <<"wav", "best", "wav">>
             [] format_name \in {"m4a", "M4A"} -> triple = <<"aac", quality, "m4a">>
             [] format_name \in {"opus", "Opus"} -> triple = <<"opus", quality, "opus">>
             [] OTHER -> triple = <<"mp3", quality, "mp3">>

C24_Witness ==
    /\ IsCall("with_audio_format")
    /\ call[1].args = <<"M4A", "256">>
    /\ call[1].value = AudioFormat("aac", "256", "m4a")

\* C25: is_playlist answers true exactly when the metadata of the URL is
\* resolved and names the kind 'playlist'; it answers false for the kind
\* 'video', for metadata without a kind and for a failed resolution, and
\* it never raises.
C25_IsPlaylist ==
    IsCall("is_playlist") =>
        LET r == call[1].args
            resolved == r.kind = "return" /\ r.value # None
        IN /\ call[1].value.kind = "return"
           /\ call[1].value.value \in BOOLEAN
           /\ call[1].value.value <=>
                /\ resolved
                /\ "_type" \in r.value[1].keys
                /\ r.value[1].type = "playlist"

C25_Witness ==
    /\ IsCall("is_playlist")
    /\ call[1].args = Return(Some(Info({"title", "_type"}, "playlist")))
    /\ call[1].value = Return(TRUE)

\* C26: an item of a collection goes through the same pipeline as a single
\* job, retry policy included: an item whose attempt ends in a ProbeFailure
\* has been dispatched once and twice again (unless a later attempt ended
\* otherwise) by the time its failure is appended; an item that succeeds at
\* its first attempt is dispatched exactly once.
C26_ItemsRetried ==
    total_items >= 1 =>
        \A k \in 1..Len(results) :
            LET dispatches == Cardinality({p \in 1..Len(download_calls) :
                                              download_calls[p] = k})
            IN /\ AttemptKind(attempts[k]) = "ProbeFailure" => dispatches = max_retries + 1
               /\ AttemptKind(attempts[k]) = "Success" => dispatches = 1

\* C27: in a single-item job, between two consecutive execute attempts
\* exactly one retry status is emitted, after the failed attempt has
\* returned and before the next one starts, and it names the number of the
\* attempt to come (2 or 3) out of 3.
C27_RetryStatus ==
    /\ \A p \in EvAt("execute") :
          trace[p].what = "begin" /\ trace[p].i > 1 =>
              /\ p >= 3
              /\ trace[p - 2].ev = "execute" /\ trace[p - 2].what = "end"
              /\ trace[p - 2].i = trace[p].i - 1
              /\ trace[p - 1].ev = "status" /\ trace[p - 1].what = "retrying"
              /\ trace[p - 1].i = trace[p].i
              /\ trace[p - 1].i \in {2, 3}
              /\ trace[p - 1].total = 3
    /\ \A p \in EvAt("status") :
          /\ p > 1 /\ trace[p - 1].ev = "execute" /\ trace[p - 1].what = "end"
          /\ p < Len(trace) /\ trace[p + 1].ev = "execute" /\ trace[p + 1].what = "begin"

C27_Witness ==
    /\ pc = "done"
    /\ Len(attempts) = 3
    /\ Cardinality(EvAt("status")) = 2
    /\ \E p \in EvAt("status") : trace[p].i = 3

\* C28: the gateway classifies every raw error, always the same way and in
\* a fixed order: a text with a corrupt-source signature ('Invalid data
\* found', 'Error opening input') is CorruptSource even when it mentions
\* the probing component; otherwise a text that mentions it ('unable to
\* obtain file audio codec' or 'ffprobe', in any letter case) is
\* ProbeFailure; any other error that is not a cancellation is Unknown,
\* its message being 'Download failed: ' followed by the raw text.
C28_Classification ==
    IsCall("strategy_download") /\ call[1].args[1].kind = "error" =>
        LET raw == call[1].args[1].msg
            corrupt == Contains(raw, "Invalid data found") \/ Contains(raw, "Error opening input")
            probe == \/ Contains(LowerMsg(raw), "unable to obtain file audio codec")
                     \/ Contains(LowerMsg(raw), "ffprobe")
        IN /\ call[1].value.kind = "raise"
           /\ call[1].value.exc.type = "DownloadError"
           /\ call[1].value.exc.msg = IF corrupt THEN CorruptMsg
                                      ELSE IF probe THEN ProbeMsg
                                      ELSE <<"Download failed: ">> \o raw

\* C29: whenever the raw percent of an update is more than 20 points away
\* from the last emitted percent, what is stored and emitted is the integer
\* average of the two and never the raw percent, whatever the last emitted
\* percent is, 0 at the start of an item included.
C29_LargeJumpAveraged ==
    IsCall("smooth_progress_update") =>
        LET new_progress == call[1].args[1]
            last == call[1].args[2]
        IN (new_progress - last > 20 \/ last - new_progress > 20) =>
              /\ call[1].value.emit = Some((last + new_progress) \div 2)
              /\ call[1].value.last = (last + new_progress) \div 2

\* C30: the percent of a 'downloading' event comes from the first of these
\* that applies: the percent string when it is present and parses; else
\* downloaded * 100 / total when a positive total (or estimate) is known;
\* else fragment_index * 100 / fragment_count when the fragment count is
\* known; when none applies the event emits no progress value.
C30_PercentPriority ==
    IsCall("progress_hook") =>
        LET d == call[1].args
            total == IF d.total_bytes > 0 THEN d.total_bytes ELSE d.total_bytes_estimate
            percent == call[1].value.percent
            Same(num, den) == percent.num * den = num * percent.den
        IN IF d.percent_str.present /\ d.percent_str.parseable
           THEN Same(d.percent_str.tenths, 10)
           ELSE IF total > 0 THEN Same(d.downloaded_bytes * 100, total)
           ELSE IF d.fragment_count > 0 THEN Same(d.fragment_index * 100, d.fragment_count)
           ELSE ~call[1].value.update

\* C31: within one item the status texts of 'downloading' events are at
\* least 500 ms (StatusUpdateInterval ticks) apart, however the raw events
\* are timed; the percent of an event whose status text was held back may
\* still be emitted.
C31_StatusThrottled ==
    \A i, j \in 1..Len(status_times) :
        i < j => status_times[j] - status_times[i] >= StatusUpdateInterval

C31_Witness ==
    /\ pc = "progress"
    /\ Len(status_times) = 2
    /\ Len(progress_emitted) = 3
    /\ events_seen = 3
    /\ idx = 0

\* C32: an entry is dispatched with its full page URL if it has one, else
\* its direct URL, else its id; when only a bare id is there (the chosen
\* value is the id and is not a URL itself) the canonical watch URL of the
\* id is dispatched instead, whatever the collection's URL; an entry with
\* neither URL nor id is not dispatched.
C32_EntryUrl ==
    IsCall("entry_url") =>
        LET entry == call[1].args[1]
            chosen == IF Truthy(entry.webpage_url) THEN entry.webpage_url
                      ELSE IF Truthy(entry.url) THEN entry.url
                      ELSE entry.id
            bare_id == /\ entry.id # None /\ chosen = entry.id
                       /\ Head(chosen[1]) # "https://"
        IN IF ~Truthy(chosen) THEN call[1].value = None
           ELSE IF bare_id
           THEN Text(call[1].value[1]) = "https://www.youtube.com/watch?v=" \o Text(chosen[1])
           ELSE call[1].value = chosen

ExecuteBegins(t) == { p \in 1..Len(t) : t[p].ev = "execute" /\ t[p].what = "begin" }

\* C34: once stop() has been called on a single-item job the worker begins
\* no further execute attempt, neither the first nor a retry, wherever stop()
\* falls among the worker's steps.
C34_NoAttemptAfterStop ==
    [][stop_requested => ExecuteBegins(trace') = ExecuteBegins(trace)]_vars

\* C35: a job that cancel(id) has recorded as Cancelled and removed from
\* the registry stays Cancelled: no signal of its worker handled later
\* (error, finished, progress) turns its status into Failed or Completed.
C35_CancelledIsAbsorbing ==
    [][\A k \in 1..Len(widget_status) :
          widget_status[k] = "Cancelled" /\ ~RegisteredIn(download_workers, k - 1)
              => widget_status'[k] = "Cancelled"]_vars

\* C36: a URL whose metadata is that of a collection never reaches the
\* single-item download: whenever the single-item path begins an execute
\* attempt, the metadata it fetched is not of kind playlist, whatever the
\* two separate resolutions (type check, fetch-info step) answered.
C36_NoCollectionInSinglePath ==
    ExecuteBegins(trace) # {} =>
        \A p \in EvAt("get_video_info") : trace[p].what = "fetch_info" => trace[p].i = 0

\* C37: a playlist worker emits finished exactly when the flag is not set
\* as the batch returns and at least one item result is a success; with
\* the flag set, without metadata or with no success it emits error, and
\* with the flag set the error is the cancellation message however many
\* items had succeeded.
C37_PlaylistTerminalSignal ==
    /\ [][pc = "pl_returned" /\ pc' = "done" =>
            LET sig == terminal'[Len(terminal')]
                successes == Cardinality({i \in 1..Len(returned[1]) : returned[1][i].success})
            IN /\ sig.sig = "finished" <=> (~stop_requested /\ successes > 0)
               /\ sig.sig \in {"finished", "error"}
               /\ stop_requested => sig = Signal("error", PlaylistCancelledMsg)]_vars
    /\ [](pc = "done" /\ returned = None /\ total_items = 0 /\ result = None /\ attempts = <<>>
             => terminal[1].sig = "error")

C37_Witness ==
    /\ pc = "done"
    /\ stop_requested
    /\ returned # None
    /\ CountSuccess(returned[1]) = 2
    /\ terminal = <<Signal("error", PlaylistCancelledMsg)>>

\* C38: whatever the collection's title, missing or empty included, every
\* item download_playlist dispatches gets an output template inside the
\* collection's subdirectory, prefixed with its own 1-based index in three
\* digits, so that two entries of one collection never get the same output
\* path, even with equal titles.
C38_ItemTemplatesDistinct ==
    IsCall("item_output_templates") =>
        LET templates == call[1].value
        IN /\ \A i \in 1..Len(templates) :
                /\ Len(templates[i]) = 9
                /\ templates[i][1] = OutputDir /\ templates[i][2] = "/"
                /\ templates[i][4] = "/"
                /\ templates[i][5] = ThreeDigits(i)
           /\ \A i, j \in 1..Len(templates) :
                i # j => target_path(templates[i], "Song", "mp3")
                            # target_path(templates[j], "Song", "mp3")

\* C39: the file path of a success result ends with the file extension of
\* the format that was asked for (mp3, flac, wav, m4a, opus), for every
\* supported format name.
C39_PathHasFormatExtension ==
    /\ result # None /\ result[1].success =>
          Last(result[1].file_path[1]) = with_audio_format(audio_format, "192").extension
    /\ IsCall("strategy_download") /\ call[1].value.kind = "return"
          /\ call[1].value.value # None =>
          \E format_name \in FormatNames :
              /\ call[1].args[2] = with_audio_format(format_name, "192").codec
              /\ Last(call[1].value.value[1]) = with_audio_format(format_name, "192").extension

\* C40: every run of the worker ends with a terminal signal, provided each
\* call into the extraction service returns or raises: the retry loop of a
\* single-item job makes at most 3 attempts and the loop of a batch visits
\* each of its N entries at most once.
C40_RunTerminates ==
    /\ <>(pc = "done" /\ Len(terminal) = 1)
    /\ [](Cardinality({p \in 1..Len(trace) :
                          trace[p].ev = "execute" /\ trace[p].what = "begin"}) <= 3)
    /\ [](total_items >= 1 =>
            /\ Len(attempts) <= total_items
            /\ \A i, j \in 1..Len(item_calls) : i < j => item_calls[i] < item_calls[j]
            /\ \A i, j \in 1..Len(download_calls) : i < j => download_calls[i] < download_calls[j])

C40_Witness ==
    /\ pc = "done"
    /\ Len(terminal) = 1
    /\ retry_count = max_retries
    /\ Len(attempts) = 3

====
